---- MODULE Spec2Model ----
(***************************************************************************)
(* Model of the costa plugin runtime of pipcook:                           *)
(*   - PluginRunnable (orchestrator side): bootstrap / start / valueOf /   *)
(*     destroy, the single onread / ondestroyed waiter slots and the       *)
(*     init/idle/busy state;                                               *)
(*   - the client (subprocess side): the operator handlers, clientId and   *)
(*     previousResults;                                                    *)
(*   - PipelineService.startJob, the sequential driver of one Runnable.    *)
(* An await of the source is a step boundary: everything a function runs   *)
(* between two awaits is one action.                                       *)
(***************************************************************************)
EXTENDS Integers, Sequences, FiniteSets, TLC

\* Largest number of API calls issued on the Runnable in one behaviour.
MaxCalls == 4
\* Largest number of subprocesses forked (bootstrap() calls) in one behaviour.
MaxForks == 2

VARIABLES
  state,        \* PluginRunnable.state: "init" | "idle" | "busy"
  handle,       \* PluginRunnable.handle: 0 (null) or index of the forked child
  onread,       \* PluginRunnable.onread: 0 (unset) or the call whose read() set it
  ondestroyed,  \* PluginRunnable.ondestroyed: 0 (unset) or the destroy() call
  dirExists,    \* whether the working directory exists on the filesystem
  sent,         \* number of handle.send() invocations made so far
  calls,        \* the API calls issued so far, each with its position
  procs,        \* the forked subprocesses (client state and both IPC queues)
  nextRid,      \* number of result ids minted by uuid.v4() in the clients
  returned,     \* history: what the plugin invoked for each start request did
  job           \* position of PipelineService.startJob (pc "off" when unused)

vars == <<state, handle, onread, ondestroyed, dirExists, sent, calls, procs,
          nextRid, returned, job>>

----------------------------------------------------------------------------
\* Values and frames

\* PluginRunnable.id: the uuid minted at construction.
RunnableId == "runnable-id"

\* new RunnableResponse(id)
RunnableResponse(id) ==
  [flag |-> "__pipcook_plugin_runnable_result__", id |-> id]

\* the null returned by start()
Null == [flag |-> "null", id |-> ""]

\* A plain (non reference) plugin argument, as built by getParams().
LiteralArg == [flag |-> "literal", id |-> ""]

\* The PluginPackage descriptor passed as the first param of a start frame.
PluginPackage == [name |-> "plugin", version |-> "1.0.0"]

\* What a plugin invocation can produce: undefined, a falsy value, a truthy one.
PluginReturns == {"undefined", "0", "{y:2}"}

\* JavaScript truthiness of a plugin return value (`if (resp)`).
Truthy(v) == v \notin {"undefined", "0", ""}

\* An id generator that hands out the same id every time.
UuidRepeats(n) == "rid-1"

\* uuid.v4() in the client: a fresh id.
Uuid(n) == "rid-" \o ToString(n)

\* JSON.parse on the sole param of a READ response.
JSONText(v) == "json:" \o v
JSONParse(s) ==
  IF \E v \in PluginReturns : JSONText(v) = s
  THEN [ok |-> TRUE, value |-> CHOOSE v \in PluginReturns : JSONText(v) = s]
  ELSE [ok |-> FALSE, value |-> "SyntaxError"]

\* PluginProto: a frame on the IPC channel.  req is the call that caused the
\* frame (history only: the wire format carries no request id).
Frame(op, event, params, req) ==
  [op |-> op, event |-> event, params |-> params, req |-> req]

\* A reply that echoes the request instead of marking itself a response.
PongAsPing(op, params, req) == Frame(op, "ping", params, req)

\* recv(respOp, ...params) of the client
Pong(op, params, req) == Frame(op, "pong", params, req)

\* A forked client whose first frame never reaches it.
NewProcUnqueued(first) ==
  [status |-> "running", inbox |-> <<>>, outbox |-> <<>>,
   clientId |-> "", previousResults |-> <<>>, pending |-> {},
   answered |-> {}]

\* A freshly forked client: clientId unset, previousResults empty.  answered
\* is history only: the requests this client has replied to.
NewProc(first) ==
  [status |-> "running", inbox |-> <<first>>, outbox |-> <<>>,
   clientId |-> "", previousResults |-> <<>>, pending |-> {},
   answered |-> {}]

\* previousResults[id] of the client, "undefined" when absent.
Lookup(table, id) ==
  IF \E i \in DOMAIN table : table[i].id = id
  THEN (CHOOSE e \in {table[i] : i \in DOMAIN table} : e.id = id).value
  ELSE "undefined"

\* deserializeArg(arg) of the client
deserializeArg(table, arg) ==
  IF arg.flag = "__pipcook_plugin_runnable_result__" /\ Truthy(Lookup(table, arg.id))
  THEN [flag |-> "value", id |-> Lookup(table, arg.id)]
  ELSE arg

----------------------------------------------------------------------------
\* Orchestrator side helpers

NewCall(kind, pc, op, err) ==
  [kind |-> kind, pc |-> pc, op |-> op, err |-> err, args |-> <<>>,
   result |-> Null, by |-> 0, to |-> 0, live |-> FALSE,
   quiet |-> \A c \in DOMAIN calls : calls[c].pc \in {"done", "failed"}]

Waiting(c) == c \in DOMAIN calls /\ calls[c].pc = "wait"

NumCalls(kind) == Cardinality({c \in DOMAIN calls : calls[c].kind = kind})

\* PluginRunnable.send: handle.send(data).  A frame sent to a subprocess whose
\* channel is closed is not delivered (send returns false).
SendTo(ps, h, f) ==
  IF ps[h].status = "running"
  THEN [ps EXCEPT ![h].inbox = Append(@, f)]
  ELSE ps

Init ==
  /\ state = "init"
  /\ handle = 0
  /\ onread = 0
  /\ ondestroyed = 0
  /\ dirExists = FALSE
  /\ sent = 0
  /\ calls = <<>>
  /\ procs = <<>>
  /\ nextRid = 0
  /\ returned = {}
  /\ job = [pc |-> "off", step |-> 0, pipeline |-> {},
            dataset |-> Null, model |-> Null, output |-> Null]

----------------------------------------------------------------------------
\* PluginRunnable: the public operations.  Each Do* operator is the part of
\* the method that runs synchronously when it is called; it appends the new
\* call to calls and leaves job to its caller.

\* bootstrap(): runs up to the first `await ensureDir(compPath)`.
DoBootstrap ==
  /\ calls' = Append(calls, NewCall("bootstrap", "prep", "START", ""))
  /\ UNCHANGED <<state, handle, onread, ondestroyed, dirExists, sent, procs, nextRid, returned>>

\* start() without the busy half of its check: only the init state is refused.
StartAcceptsWhenBusy == state # "init"

\* start(): the state check, then `this.state = 'busy'`, up to the first
\* `await ensureDir(compPath)`.
StartAccepts == state = "idle"

DoStart(args) ==
  IF ~StartAccepts
  THEN /\ calls' = Append(calls, [NewCall("start", "failed", "WRITE", "busy or not ready")
                                    EXCEPT !.args = args])
       /\ UNCHANGED <<state, handle, onread, ondestroyed, dirExists, sent, procs, nextRid, returned>>
  ELSE /\ state' = "busy"
       /\ calls' = Append(calls, [NewCall("start", "prep", "WRITE", "") EXCEPT !.args = args])
       /\ UNCHANGED <<handle, onread, ondestroyed, dirExists, sent, procs, nextRid, returned>>

\* valueOf(resp): sendAndWait(READ, ...) runs at once: send, then read() sets
\* onread.  With handle still null, this.handle.send throws.
DoValueOf(resp) ==
  IF handle = 0
  THEN /\ calls' = Append(calls, [NewCall("valueOf", "failed", "READ", "handle is null")
                                    EXCEPT !.args = <<resp>>])
       /\ UNCHANGED <<state, handle, onread, ondestroyed, dirExists, sent, procs, nextRid, returned>>
  ELSE /\ calls' = Append(calls, [NewCall("valueOf", "wait", "READ", "")
                                    EXCEPT !.args = <<resp>>, !.to = handle,
                                           !.live = procs[handle].status = "running"])
       /\ procs' = SendTo(procs, handle,
                          Frame("READ", "deserialize response", <<resp>>, Len(calls) + 1))
       /\ sent' = sent + 1
       /\ onread' = Len(calls) + 1
       /\ UNCHANGED <<state, handle, ondestroyed, dirExists, nextRid, returned>>

\* destroy(): send WRITE/destroy, then `this.ondestroyed = resolve`.
DoDestroy ==
  IF handle = 0
  THEN /\ calls' = Append(calls, NewCall("destroy", "failed", "WRITE", "handle is null"))
       /\ UNCHANGED <<state, handle, onread, ondestroyed, dirExists, sent, procs, nextRid, returned>>
  ELSE /\ calls' = Append(calls, [NewCall("destroy", "pending", "WRITE", "")
                                    EXCEPT !.to = handle])
       /\ procs' = SendTo(procs, handle, Frame("WRITE", "destroy", <<>>, Len(calls) + 1))
       /\ sent' = sent + 1
       /\ ondestroyed' = Len(calls) + 1
       /\ UNCHANGED <<state, handle, onread, dirExists, nextRid, returned>>

\* bootstrap() after its ensureDir awaits: fork the client, register
\* handleMessage / afterDestroy, then handshake(): send START/handshake and
\* read() sets onread.
BootstrapFork(c) ==
  /\ c \in DOMAIN calls
  /\ calls[c].kind = "bootstrap" /\ calls[c].pc = "prep"
  /\ dirExists' = TRUE
  /\ procs' = Append(procs, NewProc(Frame("START", "handshake", <<RunnableId>>, c)))
  /\ handle' = Len(procs) + 1
  /\ sent' = sent + 1
  /\ onread' = c
  /\ calls' = [calls EXCEPT ![c].pc = "wait", ![c].to = Len(procs) + 1, ![c].live = TRUE]
  /\ UNCHANGED <<state, ondestroyed, nextRid, returned, job>>

\* start() after its ensureDir / ensureSymlink awaits: sendAndWait(WRITE,
\* {event: 'start', params: [pkg, ...args]}): send, then read() sets onread.
StartSend(c) ==
  /\ c \in DOMAIN calls
  /\ calls[c].kind = "start" /\ calls[c].pc = "prep"
  /\ dirExists' = TRUE
  /\ procs' = SendTo(procs, handle, Frame("WRITE", "start", <<PluginPackage>> \o calls[c].args, c))
  /\ sent' = sent + 1
  /\ onread' = c
  /\ calls' = [calls EXCEPT ![c].pc = "wait", ![c].to = handle,
                             ![c].live = procs[handle].status = "running"]
  /\ UNCHANGED <<state, handle, ondestroyed, nextRid, returned, job>>

\* ensureDir / ensureSymlink rejects: the call fails where it stands.
PrepFail(c) ==
  /\ c \in DOMAIN calls
  /\ calls[c].pc = "prep"
  /\ calls' = [calls EXCEPT ![c].pc = "failed", ![c].err = "fs error"]
  /\ UNCHANGED <<state, handle, onread, ondestroyed, dirExists, sent, procs, nextRid, returned, job>>

----------------------------------------------------------------------------
\* PluginRunnable: inbound frames and the exit notification

\* start(): `const id = resp.params[0]; return id ? new RunnableResponse(id) : null`
StartResult(f) ==
  IF Len(f.params) >= 1 /\ Truthy(f.params[1])
  THEN RunnableResponse(f.params[1]) ELSE Null

\* sendAndWait accepting every event of the right operator.
IsPongAnyEvent(f) == TRUE

\* sendAndWait: `resp.event !== 'pong'` is what makes it throw.
IsPong(f) == f.event = "pong"

\* The rest of the call that read() resumes with frame f: waitOn's loop, then
\* sendAndWait's event check, then the caller's own continuation.
Resume(c, f) ==
  IF f.op # calls[c].op
  THEN \* waitOn: `while (cur !== op)`: read() again, onread is set anew
       /\ onread' = c
       /\ UNCHANGED <<state, calls>>
  ELSE IF ~IsPong(f)
  THEN /\ calls' = [calls EXCEPT ![c].pc = "failed", ![c].err = "event is not pong",
                                 ![c].by = f.req]
       /\ UNCHANGED <<state, onread>>
  ELSE IF calls[c].kind = "bootstrap"
  THEN \* handshake() returns true; `this.state = 'idle'`
       /\ state' = "idle"
       /\ calls' = [calls EXCEPT ![c].pc = "done", ![c].by = f.req]
       /\ UNCHANGED onread
  ELSE IF calls[c].kind = "start"
  THEN \* `this.state = 'idle'`; `id ? new RunnableResponse(id) : null`
       /\ state' = "idle"
       /\ calls' = [calls EXCEPT
            ![c].pc = "done", ![c].by = f.req,
            ![c].result = StartResult(f)]
       /\ UNCHANGED onread
  ELSE \* valueOf: the params check, then JSON.parse(msg.params[0])
       /\ calls' = [calls EXCEPT
            ![c].by = f.req,
            ![c].pc = IF Len(f.params) = 1 /\ JSONParse(f.params[1]).ok
                      THEN "done" ELSE "failed",
            ![c].err = IF Len(f.params) # 1 THEN "params is invalid"
                       ELSE IF ~JSONParse(f.params[1]).ok THEN "SyntaxError" ELSE "",
            ![c].result = IF Len(f.params) = 1 /\ JSONParse(f.params[1]).ok
                          THEN [flag |-> "value", id |-> JSONParse(f.params[1]).value]
                          ELSE Null]
       /\ UNCHANGED <<state, onread>>

\* handleMessage(msg): the 'message' event of child p.  The frame goes to
\* onread when it is a function; a resolve function already used does nothing.
HandleMessage(p) ==
  /\ p \in DOMAIN procs
  /\ procs[p].outbox # <<>>
  /\ procs' = [procs EXCEPT ![p].outbox = Tail(@)]
  /\ IF Waiting(onread)
     THEN Resume(onread, Head(procs[p].outbox))
     ELSE UNCHANGED <<state, onread, calls>>
  /\ UNCHANGED <<handle, ondestroyed, dirExists, sent, nextRid, returned, job>>

\* The 'disconnect' event of child p (its frames already delivered):
\* afterDestroy() runs up to `await remove(workingDir)`.
Disconnect(p) ==
  /\ p \in DOMAIN procs
  /\ procs[p].status = "exited"
  /\ procs[p].outbox = <<>>
  /\ procs' = [procs EXCEPT ![p].status = "removing"]
  /\ dirExists' = FALSE
  /\ UNCHANGED <<state, handle, onread, ondestroyed, sent, calls, nextRid, returned, job>>

\* afterDestroy() after the await: `this.ondestroyed()` when it is a function.
AfterDestroy(p) ==
  /\ p \in DOMAIN procs
  /\ procs[p].status = "removing"
  /\ procs' = [procs EXCEPT ![p].status = "gone"]
  /\ calls' = IF ondestroyed # 0 /\ calls[ondestroyed].pc = "pending"
              THEN [calls EXCEPT ![ondestroyed].pc = "done", ![ondestroyed].by = p]
              ELSE calls
  /\ UNCHANGED <<state, handle, onread, ondestroyed, dirExists, sent, nextRid, returned, job>>

----------------------------------------------------------------------------
\* The client (subprocess side)

\* process.on('message'): handlers[proto.op](proto) on the next inbound frame.
ClientRecv(p) ==
  /\ p \in DOMAIN procs
  /\ procs[p].status = "running"
  /\ procs[p].inbox # <<>>
  /\ LET f == Head(procs[p].inbox)
         rest == [procs[p] EXCEPT !.inbox = Tail(@)]
     IN procs' = [procs EXCEPT ![p] =
          IF f.op = "START"
          THEN \* handshake: record clientId, recv(START, clientId)
               IF f.event = "handshake" /\ Len(f.params) >= 1
               THEN [rest EXCEPT !.clientId = f.params[1],
                                 !.outbox = Append(@, Pong("START", <<f.params[1]>>, f.req)),
                                 !.answered = @ \cup {f.req}]
               ELSE rest
          ELSE IF f.op = "WRITE" /\ f.event = "start"
          THEN \* fn(...pluginArgs.map(deserializeArg)); a null argument makes
               \* deserializeArg throw, which the catch logs
               IF \E i \in 2..Len(f.params) : f.params[i] = Null
               THEN rest
               ELSE [rest EXCEPT !.pending = @ \cup
                       {[req |-> f.req,
                         args |-> [i \in 1..(Len(f.params) - 1) |->
                                     deserializeArg(rest.previousResults, f.params[i + 1])]]}]
          ELSE IF f.op = "WRITE" /\ f.event = "destroy"
          THEN \* process.exit(0)
               [rest EXCEPT !.status = "exited", !.inbox = <<>>, !.pending = {}]
          ELSE \* READ, COMPILE: TODO in the source, nothing happens
               rest]
  /\ UNCHANGED <<state, handle, onread, ondestroyed, dirExists, sent, calls, nextRid, returned, job>>

\* The awaited plugin call settles: with a return value r, or by throwing.
PluginSettle(p, inv, r) ==
  /\ p \in DOMAIN procs
  /\ procs[p].status = "running"
  /\ inv \in procs[p].pending
  /\ returned' = returned \cup {[req |-> inv.req, value |-> r]}
  /\ LET rest == [procs[p] EXCEPT !.pending = @ \ {inv}]
     IN IF r = "throw"
        THEN \* catch (err): console.error, no reply
             /\ procs' = [procs EXCEPT ![p] = rest]
             /\ UNCHANGED nextRid
        ELSE IF Truthy(r)
        THEN \* rid = uuid.v4(); previousResults[rid] = resp; recv(WRITE, rid)
             /\ nextRid' = nextRid + 1
             /\ procs' = [procs EXCEPT ![p] =
                  [rest EXCEPT
                     !.previousResults = Append(@, [id |-> Uuid(nextRid + 1), value |-> r]),
                     !.outbox = Append(@, Pong("WRITE", <<Uuid(nextRid + 1)>>, inv.req)),
                     !.answered = @ \cup {inv.req}]]
        ELSE \* recv(WRITE)
             /\ procs' = [procs EXCEPT ![p] =
                  [rest EXCEPT !.outbox = Append(@, Pong("WRITE", <<>>, inv.req)),
                               !.answered = @ \cup {inv.req}]]
             /\ UNCHANGED nextRid
  /\ UNCHANGED <<state, handle, onread, ondestroyed, dirExists, sent, calls, job>>

\* The subprocess dies on its own (killed, out of memory, a native crash).
ClientCrash(p) ==
  /\ p \in DOMAIN procs
  /\ procs[p].status = "running"
  /\ procs' = [procs EXCEPT ![p].status = "exited", ![p].inbox = <<>>, ![p].pending = {}]
  /\ UNCHANGED <<state, handle, onread, ondestroyed, dirExists, sent, calls, nextRid, returned, job>>

----------------------------------------------------------------------------
\* Callers of the Runnable: any code holding it may call any public method at
\* any time, awaited or not.

\* Result References handed out so far, and the other values a caller passes.
StartArgs ==
  {<<LiteralArg>>} \cup
  {<<calls[c].result>> : c \in {d \in DOMAIN calls : calls[d].kind = "start" /\ calls[d].pc = "done"}}

ValueOfArgs ==
  {RunnableResponse(Uuid(0))} \cup
  {calls[c].result : c \in {d \in DOMAIN calls :
      calls[d].kind = "start" /\ calls[d].pc = "done" /\ calls[d].result # Null}}

CallBootstrap ==
  /\ job.pc = "off"
  /\ Len(calls) < MaxCalls
  /\ NumCalls("bootstrap") < MaxForks
  /\ DoBootstrap
  /\ UNCHANGED job

CallStart ==
  /\ job.pc = "off"
  /\ Len(calls) < MaxCalls
  /\ \E args \in StartArgs : DoStart(args)
  /\ UNCHANGED job

CallValueOf ==
  /\ job.pc = "off"
  /\ Len(calls) < MaxCalls
  /\ \E resp \in ValueOfArgs : DoValueOf(resp)
  /\ UNCHANGED job

CallDestroy ==
  /\ job.pc = "off"
  /\ Len(calls) < MaxCalls
  /\ DoDestroy
  /\ UNCHANGED job

Runtime ==
  \/ \E c \in DOMAIN calls : BootstrapFork(c)
  \/ \E c \in DOMAIN calls : StartSend(c)
  \/ \E c \in DOMAIN calls : PrepFail(c)
  \/ \E p \in DOMAIN procs : HandleMessage(p)
  \/ \E p \in DOMAIN procs : Disconnect(p)
  \/ \E p \in DOMAIN procs : AfterDestroy(p)
  \/ \E p \in DOMAIN procs : ClientRecv(p)
  \/ \E p \in DOMAIN procs : \E inv \in procs[p].pending :
       \E r \in PluginReturns \cup {"throw"} : PluginSettle(p, inv, r)
  \/ \E p \in DOMAIN procs : ClientCrash(p)

Next ==
  \/ CallBootstrap
  \/ CallStart
  \/ CallValueOf
  \/ CallDestroy
  \/ Runtime

Spec == Init /\ [][Next]_vars

----------------------------------------------------------------------------
\* PipelineService.startJob: one control flow that creates a Runnable, runs
\* the pipeline's plugins on it in order, reads the evaluation back and
\* destroys it.  Every runable.* call is awaited before the next statement.

\* The plugin slots of a pipeline, in the order startJob runs them.
Stages == <<"dataCollect", "dataAccess", "dataProcess",
            "modelDefine", "modelTrain", "modelEvaluate">>

\* verifyPlugin(name) calls made right before stage k is installed.
Verified(k) ==
  CASE k = 1 -> {"dataCollect"}
    [] k = 2 -> {"dataAccess"}
    [] k = 4 -> {"modelDefine", "modelTrain", "modelEvaluate"}
    [] OTHER -> {}

\* The arguments startJob passes to runable.start at stage k.
StageArgs(k) ==
  CASE k \in {1, 2, 3} -> <<LiteralArg>>
    [] k = 4 -> <<job.dataset, LiteralArg>>
    [] OTHER -> <<job.dataset, job.model, LiteralArg>>

\* Step 0 is costa.createRunnable(), steps 1..6 the stages, step 7
\* runable.valueOf(output), step 8 the output directory and runable.destroy().
LastStep == 8

InitJob ==
  /\ state = "init"
  /\ handle = 0
  /\ onread = 0
  /\ ondestroyed = 0
  /\ dirExists = FALSE
  /\ sent = 0
  /\ calls = <<>>
  /\ procs = <<>>
  /\ nextRid = 0
  /\ returned = {}
  /\ \E configured \in SUBSET {Stages[k] : k \in DOMAIN Stages} :
       job = [pc |-> "run", step |-> 0, pipeline |-> configured,
              dataset |-> Null, model |-> Null, output |-> Null]

\* costa.createRunnable(): new PluginRunnable(rt), then await bootstrap().
createRunnable == DoBootstrap

\* startJob runs from one await to the next runable.* call.
StartJobCall ==
  /\ job.pc = "run"
  /\ LET k == job.step IN
       IF k = 0
       THEN /\ createRunnable
            /\ job' = [job EXCEPT !.pc = "await"]
       ELSE IF k \in 1..6 /\ ~(Verified(k) \subseteq job.pipeline)
       THEN \* verifyPlugin throws: `"${name}" plugin is required`
            /\ job' = [job EXCEPT !.pc = "failed"]
            /\ UNCHANGED <<state, handle, onread, ondestroyed, dirExists, sent,
                           calls, procs, nextRid, returned>>
       ELSE IF k = 3 /\ "dataProcess" \notin job.pipeline
       THEN \* `if (pipeline.dataProcess)` is false
            /\ job' = [job EXCEPT !.step = 4]
            /\ UNCHANGED <<state, handle, onread, ondestroyed, dirExists, sent,
                           calls, procs, nextRid, returned>>
       ELSE IF k \in 1..6
       THEN /\ DoStart(StageArgs(k))
            /\ job' = [job EXCEPT !.pc = "await"]
       ELSE IF k = 7
       THEN /\ DoValueOf(job.output)
            /\ job' = [job EXCEPT !.pc = "await"]
       ELSE /\ DoDestroy
            /\ job' = [job EXCEPT !.pc = "await"]

\* An awaited collaborator rejects: costa.fetchAndInstall before a stage, or
\* job.save / fs / npm before destroy.
StartJobThrow ==
  /\ job.pc = "run"
  /\ \/ job.step \in 1..6 /\ Stages[job.step] \in job.pipeline
     \/ job.step = LastStep
  /\ job' = [job EXCEPT !.pc = "failed"]
  /\ UNCHANGED <<state, handle, onread, ondestroyed, dirExists, sent, calls, procs, nextRid, returned>>

\* The awaited runable.* call settles: its value is kept, or its error ends
\* startJob.
StartJobResume ==
  /\ job.pc = "await"
  /\ calls[Len(calls)].pc \in {"done", "failed"}
  /\ LET c == calls[Len(calls)]
         k == job.step IN
       job' = IF c.pc = "failed" THEN [job EXCEPT !.pc = "failed"]
              ELSE IF k = LastStep THEN [job EXCEPT !.pc = "done"]
              ELSE [job EXCEPT
                      !.pc = "run", !.step = k + 1,
                      !.dataset = IF k \in {2, 3} THEN c.result ELSE @,
                      !.model = IF k \in {4, 5} THEN c.result ELSE @,
                      !.output = IF k = 6 THEN c.result ELSE @]
  /\ UNCHANGED <<state, handle, onread, ondestroyed, dirExists, sent, calls, procs, nextRid, returned>>

NextJob ==
  \/ StartJobCall
  \/ StartJobThrow
  \/ StartJobResume
  \/ Runtime

JobSpec == InitJob /\ [][NextJob]_vars

----------------------------------------------------------------------------
\* The Runnable on an arbitrary IPC peer: handleMessage is handed whatever the
\* child process sends, and code running in the child (a plugin) can call
\* process.send itself.  The callers here await every call before the next.

\* Largest number of undelivered frames a child may have queued when a frame
\* of its own making is added.
MaxBacklog == 1

\* Frames of any operator and event.
ForeignFrames ==
  {Frame(op, event, <<>>, 0) : op \in {"START", "WRITE", "READ"}, event \in {"pong", "ping"}}

\* handle.on('message', ...): child p sends a frame that answers no request.
ForeignFrame(p, f) ==
  /\ p \in DOMAIN procs
  /\ procs[p].status = "running"
  /\ Len(procs[p].outbox) < MaxBacklog
  /\ procs' = [procs EXCEPT ![p].outbox = Append(@, f)]
  /\ UNCHANGED <<state, handle, onread, ondestroyed, dirExists, sent, calls, nextRid, returned, job>>

\* Every call made so far has been awaited to its end.
Settled == \A c \in DOMAIN calls : calls[c].pc \in {"done", "failed"}

\* A caller that got the Runnable from createRunnable() and awaits each call:
\* bootstrap() first and once, then start() and valueOf().
AwaitedCall ==
  /\ Settled
  /\ IF calls = <<>> THEN CallBootstrap ELSE (CallStart \/ CallValueOf)

\* The subprocess stays alive and the filesystem calls succeed.
WireRuntime ==
  \/ \E c \in DOMAIN calls : BootstrapFork(c)
  \/ \E c \in DOMAIN calls : StartSend(c)
  \/ \E p \in DOMAIN procs : HandleMessage(p)
  \/ \E p \in DOMAIN procs : ClientRecv(p)
  \/ \E p \in DOMAIN procs : \E inv \in procs[p].pending :
       \E r \in PluginReturns \cup {"throw"} : PluginSettle(p, inv, r)

NextWire ==
  \/ AwaitedCall
  \/ WireRuntime
  \/ \E p \in DOMAIN procs : \E f \in ForeignFrames : ForeignFrame(p, f)

WireSpec == Init /\ [][NextWire]_vars

----------------------------------------------------------------------------
\* Properties

\* The step issues a new call of the given kind.
Issued(kind) ==
  /\ Len(calls') = Len(calls) + 1
  /\ calls'[Len(calls')].kind = kind

\* Calls that have sent a request frame and are suspended on its response.
InFlight == {c \in DOMAIN calls : calls[c].pc = "wait"}

\* C1: a start() called while the state is not idle (init or busy) fails at
\* once, makes no handle.send() call, delivers nothing to any subprocess and
\* leaves the state as it was.
C1_StartRefusedWhenNotIdle ==
  [][(Issued("start") /\ state # "idle") =>
       /\ calls'[Len(calls')].pc = "failed"
       /\ sent' = sent
       /\ procs' = procs
       /\ state' = state]_vars

\* C1 witness: a start() was refused while another call held the state busy.
C1_Witness ==
  \E c \in DOMAIN calls :
    /\ calls[c].kind = "start"
    /\ calls[c].pc = "failed" /\ calls[c].err = "busy or not ready"
    /\ state = "busy"
    /\ sent > 0

\* C2 (as claimed): at most one request of the Runnable awaits its response.
C2_AtMostOneInFlight == Cardinality(InFlight) <= 1

\* C3 (as claimed): the state moves init -> idle -> busy -> idle only; a
\* bootstrap() that completes leaves it idle; it leaves busy only in the step
\* in which the start() that set it receives the pong of its own request.
C3_StateMachine ==
  [][/\ state' # state =>
          <<state, state'>> \in {<<"init", "idle">>, <<"idle", "busy">>, <<"busy", "idle">>}
     /\ \A c \in DOMAIN calls :
          (calls[c].kind = "bootstrap" /\ calls[c].pc = "wait" /\ calls'[c].pc = "done")
            => state' = "idle"
     /\ (state' = "busy" /\ state # "busy") => Issued("start")
     /\ (state = "busy" /\ state' # "busy") =>
          \E c \in DOMAIN calls :
            /\ calls[c].kind = "start" /\ calls[c].pc = "wait"
            /\ calls'[c].pc = "done" /\ calls'[c].by = c]_vars

\* A plugin return value that counts as nothing for C5.
ReturnedNothing(c) == [req |-> c, value |-> "undefined"] \in returned

\* C4 (as claimed): a start() whose plugin returned a truthy value v resolves
\* to a reference that the client's table maps to v, and every READ request a
\* client handles is answered with one READ pong whose sole param is the JSON
\* text of the referenced value, so that valueOf() can complete.
C4_ValueOfRoundTrip ==
  [][/\ \A c \in DOMAIN calls' :
          (calls'[c].kind = "start" /\ calls'[c].pc = "done" /\ calls'[c].by = c)
            => \A e \in returned' :
                 (e.req = c /\ Truthy(e.value)) =>
                   /\ calls'[c].result # Null
                   /\ Lookup(procs'[calls'[c].to].previousResults,
                             calls'[c].result.id) = e.value
     /\ \A p \in DOMAIN procs :
          ( /\ procs[p].status = "running" /\ procs'[p].status = "running"
            /\ procs[p].inbox # <<>>
            /\ procs'[p].inbox = Tail(procs[p].inbox)
            /\ Head(procs[p].inbox).op = "READ" )
            => procs'[p].outbox =
                 Append(procs[p].outbox,
                        Pong("READ",
                             <<JSONText(Lookup(procs[p].previousResults,
                                               Head(procs[p].inbox).params[1].id))>>,
                             Head(procs[p].inbox).req))]_vars

\* C5 (as claimed): when the plugin of an accepted start() returns undefined,
\* the client replies WRITE pong with no params and stores nothing, and that
\* start(), when it completes, resolves to null in the step that sets the
\* state idle.
C5_NothingReturnedGivesNull ==
  [][\A c \in DOMAIN calls' :
       (calls'[c].kind = "start" /\ ReturnedNothing(c)') =>
         /\ ~ReturnedNothing(c) =>
              /\ nextRid' = nextRid
              /\ \E p \in DOMAIN procs :
                   /\ procs'[p].outbox = Append(procs[p].outbox, Pong("WRITE", <<>>, c))
                   /\ procs'[p].previousResults = procs[p].previousResults
         /\ calls'[c].pc = "done" => calls'[c].result = Null
         /\ (c \in DOMAIN calls /\ calls[c].pc = "wait" /\ calls'[c].pc = "done")
              => state' = "idle"]_vars

\* The destroy() call d keeps the caller's side of the contract: every call
\* made before it had settled when it was made, and no call was made since.
LastAndQuiet(d) ==
  /\ d \in DOMAIN calls
  /\ calls[d].kind = "destroy"
  /\ calls[d].quiet
  /\ d = Len(calls)

\* C6 (as claimed): destroy() sends WRITE/destroy and suspends on ondestroyed
\* without waiting for a frame; it resolves only in the step that ends
\* afterDestroy(), after the exit notification and the remove(), and, for a
\* caller that made it with no call outstanding and made none since, the
\* working directory is absent when it resolves.
C6_DestroyResolvesAfterExit ==
  [][/\ (Issued("destroy") /\ handle # 0) =>
          /\ calls'[Len(calls')].pc = "pending"
          /\ sent' = sent + 1
          /\ onread' = onread
          /\ ondestroyed' = Len(calls')
          /\ procs[handle].status = "running" =>
               procs'[handle].inbox =
                 Append(procs[handle].inbox, Frame("WRITE", "destroy", <<>>, Len(calls')))
     /\ \A d \in DOMAIN calls :
          (calls[d].kind = "destroy" /\ calls[d].pc = "pending" /\ calls'[d].pc = "done") =>
            /\ \E p \in DOMAIN procs :
                 procs[p].status = "removing" /\ procs'[p].status = "gone"
            /\ LastAndQuiet(d) => ~dirExists']_vars

\* Nothing is left to happen in either process: no frame or event is pending,
\* no filesystem call is outstanding and no subprocess is alive.
Quiescent == ~ENABLED Runtime

\* The subprocess that call c sent its request to was running then, has
\* exited since, and its exit notification has been handled to the end.
PeerGone(c) == calls[c].live /\ procs[calls[c].to].status = "gone"

\* C7 (as claimed): a start() or valueOf() whose subprocess exited while it
\* was waiting does not stay suspended: once everything has settled, the call
\* has failed.
C7_ExitFailsOutstandingCall ==
  Quiescent =>
    \A c \in DOMAIN calls :
      (calls[c].kind \in {"start", "valueOf"} /\ PeerGone(c)) => calls[c].pc # "wait"

\* C8 (as claimed): the state is idle only after a handshake pong, and a
\* bootstrap() whose subprocess exited without sending the pong does not stay
\* suspended: once everything has settled, the call has failed.
C8_BootstrapFailsWithoutPong ==
  /\ state = "idle" =>
       \E c \in DOMAIN calls : calls[c].kind = "bootstrap" /\ calls[c].pc = "done"
  /\ Quiescent =>
       \A c \in DOMAIN calls :
         (calls[c].kind = "bootstrap" /\ PeerGone(c)) => calls[c].pc # "wait"

\* C9 (as claimed): the onread slot is not overwritten while its call is
\* waiting, a frame that arrives while the call that requested it is waiting
\* reaches that call, and a call completes only on the response to its own
\* request.
C9_ResponsesReachTheirCall ==
  [][/\ Waiting(onread) => onread' = onread
     /\ \A p \in DOMAIN procs :
          ( /\ procs[p].outbox # <<>>
            /\ procs'[p].outbox = Tail(procs[p].outbox)
            /\ Waiting(Head(procs[p].outbox).req) )
            => onread = Head(procs[p].outbox).req
     /\ \A c \in DOMAIN calls :
          (calls[c].pc = "wait" /\ calls'[c].pc \in {"done", "failed"}) => calls'[c].by = c]_vars

\* C10 (as claimed): whenever startJob has ended, normally or by an error,
\* after creating its Runnable, it has called destroy() on it.
C10_JobAlwaysDestroys ==
  (job.pc \in {"done", "failed"} /\ job.step >= 1) =>
    \E d \in DOMAIN calls : calls[d].kind = "destroy"

\* C11 (as claimed): whenever a request sent through sendAndWait awaits its
\* response the state is busy, and whenever the state is busy exactly one
\* request is in flight.
C11_BusyExactlyWhileInFlight ==
  /\ InFlight # {} => state = "busy"
  /\ state = "busy" => Cardinality(InFlight) = 1

\* The plugin invoked for the request of call c raised an error.
Thrown(c) == [req |-> c, value |-> "throw"] \in returned

\* C12 (as claimed): when the plugin of a start request raises, the client
\* sends no frame and stores nothing; from then on that start() stays
\* suspended, the state stays busy and every later start() fails as busy.
C12_PluginErrorLeavesBusy ==
  [][\A c \in DOMAIN calls :
       /\ (Thrown(c)' /\ ~Thrown(c)) =>
            /\ nextRid' = nextRid
            /\ procs'[calls[c].to].outbox = procs[calls[c].to].outbox
            /\ procs'[calls[c].to].previousResults = procs[calls[c].to].previousResults
       /\ (calls[c].kind = "start" /\ Thrown(c)) =>
            /\ state = "busy" /\ state' = "busy"
            /\ calls'[c].pc = "wait"
            /\ Issued("start") =>
                 /\ calls'[Len(calls')].pc = "failed"
                 /\ calls'[Len(calls')].err = "busy or not ready"]_vars

\* The argument the plugin is to be given for the wire argument a, by the
\* Result Table of the client: the stored value for a reference whose id is
\* present, a itself otherwise.
Resolved(table, a) ==
  IF /\ a.flag = "__pipcook_plugin_runnable_result__"
     /\ \E i \in DOMAIN table : table[i].id = a.id
  THEN [flag |-> "value",
        id |-> (CHOOSE e \in {table[i] : i \in DOMAIN table} : e.id = a.id).value]
  ELSE a

\* C13 (as claimed): every WRITE/start request a client handles invokes the
\* plugin, with each reference argument whose id is in the Result Table
\* replaced by the stored value and every other argument passed unchanged.
C13_ArgumentsResolved ==
  [][\A p \in DOMAIN procs :
       ( /\ procs[p].status = "running" /\ procs'[p].status = "running"
         /\ procs[p].inbox # <<>>
         /\ procs'[p].inbox = Tail(procs[p].inbox)
         /\ Head(procs[p].inbox).op = "WRITE"
         /\ Head(procs[p].inbox).event = "start" )
         => LET f == Head(procs[p].inbox) IN
              \E inv \in procs'[p].pending \ procs[p].pending :
                /\ inv.req = f.req
                /\ Len(inv.args) = Len(f.params) - 1
                /\ \A i \in 1..Len(inv.args) :
                     inv.args[i] = Resolved(procs[p].previousResults, f.params[i + 1])]_vars

\* C14: sendAndWait sends its frame when it is called; the call waiting in
\* onread keeps waiting when it is handed a frame of another operator;
\* handed a frame of its own operator it ends there: with an error when the
\* event is not "pong", otherwise by returning that frame's message to its
\* caller; and a waiting call ends in no other step.
C14_SendAndWaitMatching ==
  [][/\ \A c \in DOMAIN calls' :
          (calls'[c].pc = "wait" /\ (c \notin DOMAIN calls \/ calls[c].pc # "wait"))
            => sent' = sent + 1
     /\ \A p \in DOMAIN procs :
          ( /\ procs[p].outbox # <<>>
            /\ procs'[p].outbox = Tail(procs[p].outbox)
            /\ Waiting(onread) )
            => LET f == Head(procs[p].outbox)
                   c == onread IN
                 /\ f.op # calls[c].op =>
                      /\ calls'[c] = calls[c]
                      /\ onread' = c
                 /\ (f.op = calls[c].op /\ f.event # "pong") =>
                      /\ calls'[c].pc = "failed"
                      /\ calls'[c].err = "event is not pong"
                 /\ (f.op = calls[c].op /\ f.event = "pong") =>
                      /\ calls'[c].pc \in {"done", "failed"}
                      /\ calls'[c].err # "event is not pong"
                      /\ calls[c].kind = "bootstrap" => calls'[c].pc = "done"
                      /\ calls[c].kind = "start" =>
                           /\ calls'[c].pc = "done"
                           /\ calls'[c].result =
                                IF f.params # <<>> /\ Truthy(f.params[1])
                                THEN RunnableResponse(f.params[1]) ELSE Null
                      /\ calls[c].kind = "valueOf" =>
                           (calls'[c].pc = "done" <=>
                              (Len(f.params) = 1 /\ JSONParse(f.params[1]).ok))
     /\ \A c \in DOMAIN calls :
          (calls[c].pc = "wait" /\ calls'[c].pc # "wait") =>
            /\ onread = c
            /\ \E p \in DOMAIN procs :
                 /\ procs[p].outbox # <<>>
                 /\ procs'[p].outbox = Tail(procs[p].outbox)
                 /\ Head(procs[p].outbox).op = calls[c].op]_vars

\* C14 witness: one call was ended by a frame of its operator whose event is
\* not "pong", another returned on a pong, with a frame of a foreign operator
\* queued for the call now waiting.
C14_Witness ==
  /\ \E c \in DOMAIN calls : calls[c].pc = "failed" /\ calls[c].err = "event is not pong"
  /\ \E c \in DOMAIN calls : calls[c].kind = "start" /\ calls[c].pc = "done"
  /\ Waiting(onread)
  /\ \E p \in DOMAIN procs :
       procs[p].outbox # <<>> /\ Head(procs[p].outbox).op # calls[onread].op

\* C15: a WRITE frame (start or destroy) that a client is about to process
\* finds the client id recorded by an earlier START/handshake frame, and the
\* client answers a handshake by recording the supplied id and sending one
\* START pong whose sole param is that id.
C15_NoWriteBeforeHandshake ==
  [][\A p \in DOMAIN procs :
       /\ ( /\ procs[p].status = "running"
            /\ procs[p].inbox # <<>>
            /\ Head(procs[p].inbox).op = "WRITE" )
            => procs[p].clientId = RunnableId
       /\ ( /\ procs[p].status = "running" /\ procs'[p].status = "running"
            /\ procs[p].inbox # <<>>
            /\ procs'[p].inbox = Tail(procs[p].inbox)
            /\ Head(procs[p].inbox).op = "START"
            /\ Head(procs[p].inbox).event = "handshake" )
            => LET f == Head(procs[p].inbox) IN
                 /\ procs[p].clientId = ""
                 /\ procs'[p].clientId = f.params[1]
                 /\ procs'[p].outbox =
                      Append(procs[p].outbox, Frame("START", "pong", <<f.params[1]>>, f.req))]_vars

\* C15 witness: a client that recorded its id has taken a WRITE/start frame
\* and is running the plugin.
C15_Witness ==
  \E p \in DOMAIN procs :
    /\ procs[p].status = "running"
    /\ procs[p].clientId = RunnableId
    /\ procs[p].pending # {}

\* C16 (as claimed): when a start() that passed the idle check fails (in its
\* directory preparation or on a response that is not a pong), the state is
\* idle again in the step it fails, and a start() made once every call has
\* settled after such a failure is accepted.
C16_FailedStartFreesRunnable ==
  [][/\ \A c \in DOMAIN calls :
          ( /\ calls[c].kind = "start"
            /\ calls[c].pc \in {"prep", "wait"}
            /\ calls'[c].pc = "failed" )
            => state' = "idle"
     /\ ( /\ Issued("start")
          /\ Settled
          /\ \E c \in DOMAIN calls :
               /\ calls[c].kind = "start" /\ calls[c].pc = "failed"
               /\ calls[c].err # "busy or not ready" )
          => calls'[Len(calls')].pc = "prep"]_vars

\* The exit notification ('disconnect') of the Runnable's subprocess has fired.
ExitFired == handle # 0 /\ procs[handle].status \in {"removing", "gone"}

\* C17 (as claimed): once the exit notification has fired, the state never
\* becomes busy again, no frame is sent, the working directory is not
\* created again, and every call made from then on fails at once.
C17_TerminalAfterExit ==
  [][ExitFired =>
       /\ ~(state # "busy" /\ state' = "busy")
       /\ sent' = sent
       /\ ~(~dirExists /\ dirExists')
       /\ Len(calls') > Len(calls) => calls'[Len(calls')].pc = "failed"]_vars

\* The ids of a Result Table.
TableIds(table) == {table[i].id : i \in DOMAIN table}

\* C18: in every step the Result Table of each client keeps all its entries
\* as they are and gains at most one; it gains one exactly when a plugin
\* invocation returns a truthy value, which is stored under an id that no
\* table holds yet and that is the sole param of the WRITE pong sent in the
\* same step.
C18_ResultTableOnlyGrows ==
  [][\A p \in DOMAIN procs :
       LET old == procs[p].previousResults
           new == procs'[p].previousResults IN
         /\ Len(new) \in {Len(old), Len(old) + 1}
         /\ SubSeq(new, 1, Len(old)) = old
         /\ Len(new) = Len(old) + 1 =>
              LET e == new[Len(new)] IN
                /\ Truthy(e.value)
                /\ \A q \in DOMAIN procs : e.id \notin TableIds(procs[q].previousResults)
                /\ \E r \in returned' \ returned :
                     /\ r.value = e.value
                     /\ procs'[p].outbox =
                          Append(procs[p].outbox, Frame("WRITE", "pong", <<e.id>>, r.req))
         /\ (\E r \in returned' \ returned :
               Truthy(r.value) /\ r.value # "throw" /\ calls[r.req].to = p)
              => Len(new) = Len(old) + 1]_vars

\* C18 witness: a client whose table has grown twice, with both results
\* handed out as references.
C18_Witness ==
  \E p \in DOMAIN procs :
    /\ Len(procs[p].previousResults) >= 2
    /\ \A i \in DOMAIN procs[p].previousResults :
         \E c \in DOMAIN calls :
           /\ calls[c].kind = "start" /\ calls[c].pc = "done"
           /\ calls[c].result = RunnableResponse(procs[p].previousResults[i].id)

\* Client p holds the request of call c: as the next frame to handle, or as a
\* plugin invocation still running.
HoldsRequest(p, c) ==
  \/ procs[p].inbox # <<>> /\ Head(procs[p].inbox).req = c
  \/ \E inv \in procs[p].pending : inv.req = c

\* C19: every frame a client sends is added alone at the end of its outgoing
\* queue, has event "pong", and answers a request that this client received
\* and holds, with the operator of that request; and the client has sent no
\* frame for that request before.
C19_OnlyResponsesOncePerRequest ==
  [][\A p \in DOMAIN procs :
       Len(procs'[p].outbox) > Len(procs[p].outbox)
         => \E c \in DOMAIN calls :
              LET f == procs'[p].outbox[Len(procs'[p].outbox)] IN
                /\ procs'[p].outbox = Append(procs[p].outbox, f)
                /\ f.event = "pong"
                /\ f.req = c
                /\ f.op = calls[c].op
                /\ calls[c].to = p
                /\ HoldsRequest(p, c)
                /\ c \notin procs[p].answered
                /\ \A i \in DOMAIN procs[p].outbox : procs[p].outbox[i].req # c]_vars

\* C19 witness: a client has answered its handshake and two start requests,
\* one with a result id and one without.
C19_Witness ==
  \E p \in DOMAIN procs :
    /\ Cardinality(procs[p].answered) >= 3
    /\ procs[p].outbox # <<>>
    /\ Head(procs[p].outbox).op = "WRITE"
    /\ Head(procs[p].outbox).params = <<>>
    /\ procs[p].previousResults # <<>>

\* C20 (as claimed): a Runnable has at most one subprocess over its lifetime,
\* and a bootstrap() on a Runnable that is not in state init forks nothing
\* and leaves the process handle as it is.
C20_AtMostOneSubprocess ==
  [][/\ Len(procs') <= 1
     /\ state # "init" => (Len(procs') = Len(procs) /\ handle' = handle)]_vars

====
